---- MODULE Spec2Model ----
(***************************************************************************)
(* A model of mixpanel_query.paginator.ConcurrentPaginator: one call of    *)
(* fetch_all, the injected page-fetch function (get_func) as the           *)
(* environment, and the ThreadPool.map that runs the page fetches.         *)
(*                                                                         *)
(* The library runs on Python 2 and on Python 3 (connection.py uses six);  *)
(* `build` is the interpreter.  Two places of paginator.py behave          *)
(* differently on the two: `params.items() + [...]` (a list on Python 2,   *)
(* a TypeError on Python 3) and ThreadPool.map's handling of a failed      *)
(* task (Python 2 returns at the first failure, Python 3 waits for every   *)
(* task).                                                                  *)
(***************************************************************************)
EXTENDS Integers, Sequences, FiniteSets, TLC

\* ---------------------------------------------------------------- bounds
MaxConc == 2
MaxTotal == 6
MaxPageSize == 2
MaxFirstPage == 1

\* ------------------------------------------------------------- constants
ParamKeys == {"where", "page", "session_id"}
RespKeys == {"page", "page_size", "total", "session_id", "results"}
Builds == {"py2", "py3"}
FetchErrors == {"E1", "E2"}
NoError == "none"
\* an error get_func raises that is a BaseException but not an Exception
ExitError == "SystemExit"
\* the session id the server returns
ServerSession == 11
\* an items list unrelated to total and page_size (tests/test_paginator.py
\* returns 100 results for total = 1, page_size = 10)
Stray == <<90, 91, 92>>
\* the task of the first, synchronous fetch in the log (pooled tasks are
\* named by their page number)
FirstTask == -1
\* an unset slot of MapResult._value ([None] * length)
NoneVal == <<-1>>

Max(a, b) == IF a >= b THEN a ELSE b
Min(a, b) == IF a <= b THEN a ELSE b

\* ------------------------------------------------- parameter mappings
\* A dict: the set of its keys and the value of each key (0 when absent).
EmptyDict == [keys |-> {}, val |-> [k \in ParamKeys |-> 0]]

DictSet(d, k, v) == [keys |-> d.keys \cup {k}, val |-> [d.val EXCEPT ![k] = v]]

\* A caller's dict with the keys ks: where = 5, page = 1, session_id = 10.
DictOf(ks) ==
    [keys |-> ks,
     val |-> [k \in ParamKeys |->
                IF k \notin ks THEN 0
                ELSE IF k = "where" THEN 5
                ELSE IF k = "page" THEN 1
                ELSE 10]]

\* What a caller passes to fetch_all: nothing (params=None) or a dict.
CallerArgs ==
    {[none |-> TRUE, dict |-> EmptyDict]} \cup
    {[none |-> FALSE, dict |-> DictOf(ks)] :
        ks \in {{}, {"where"}, {"where", "page", "session_id"}}}

\* ---------------------------------------------------------- responses
\* The i-th slice of a snapshot of T items, S per page: items are 1..T.
Slice(p, T, S) ==
    [i \in 1..Max(0, Min(S, T - p * S)) |-> p * S + i]

\* A response of get_func: its keys and their values.
Response(ks, pg, ps, tot, res) ==
    [keys |-> ks, page |-> pg, page_size |-> ps, total |-> tot,
     session_id |-> ServerSession, results |-> res]

\* Responses carrying every key: any page, any page size (zero and
\* negative included), any total, the page's slice or an unrelated list.
FullResponses ==
    {Response(RespKeys, pg, ps, tot, Stray) :
        pg \in 0..MaxFirstPage, ps \in -1..MaxPageSize, tot \in 0..MaxTotal} \cup
    {Response(RespKeys, pg, ps, tot, Slice(pg, tot, ps)) :
        pg \in 0..MaxFirstPage, ps \in 1..MaxPageSize, tot \in 0..MaxTotal}

\* Responses lacking one key.
PartialResponses ==
    {Response(RespKeys \ {k}, 0, 2, 2, Slice(0, 2, 2)) : k \in RespKeys}

FirstResponses == FullResponses \cup PartialResponses

NoResponse == Response({}, 0, 0, 0, <<>>)

\* ------------------------------------------------------ client inputs
\* Days and seconds of the day that the date arguments range over.
MaxDay == 2
MaxSec == 1

\* A date argument: a 'YYYY-MM-DD' string, a 'YYYY-MM-DD HH:MM:SS' string,
\* or a string in neither form.
DateStrings ==
    {[fmt |-> "date", day |-> d, sec |-> 0] : d \in 1..MaxDay} \cup
    {[fmt |-> "datetime", day |-> d, sec |-> t] :
        d \in 1..MaxDay, t \in 0..MaxSec} \cup
    {[fmt |-> "other", day |-> 0, sec |-> 0]}

NoDate == [fmt |-> "none", day |-> 0, sec |-> 0]
NoMethod == "none"

\* FORMAT_JSON, FORMAT_CSV and a format that is neither.
VALID_RESPONSE_FORMATS == {"json", "csv"}
Formats == VALID_RESPONSE_FORMATS \cup {"xml"}

\* ------------------------------------------------------ python values
\* The values a request parameter can have: None, an int (v is the number),
\* a str or a list (v is the length).
PyNone == [t |-> "NoneType", v |-> 0]
PyInt(n) == [t |-> "int", v |-> n]
PyStr(n) == [t |-> "str", v |-> n]
PyList(n) == [t |-> "list", v |-> n]

\* Python's truth value: None, 0, '' and [] are false.
Truthy(x) == x.t # "NoneType" /\ x.v # 0

\* The arguments a caller gives get_engage.
WhereValues == {PyNone, PyStr(0), PyStr(1)}
SessionValues == {PyNone, PyStr(1), PyInt(0)}
PageValues == {PyNone, PyInt(0), PyInt(1), PyList(0), PyList(1)}

\* The api_key and api_secret a client is constructed with.
ApiKeys == {PyStr(1), PyStr(0)}
ApiSecrets == {PyStr(1)}

\* What a caller may assign to client.timeout.
TimeoutValues == {PyNone, PyInt(0), PyInt(5)}

\* time.time() at the request, in seconds.
MaxNow == 2
Clock == 1..MaxNow

\* Before MixpanelQueryClient(api_key, api_secret) has run.
NoClient ==
    [made |-> FALSE, api_key |-> PyNone, api_secret |-> PyNone,
     has_timeout |-> FALSE, timeout |-> PyNone]

VARIABLES
    build,        \* the interpreter the library runs on
    concurrency,  \* ConcurrentPaginator.concurrency
    callerParams, \* the object the caller passed as `params`
    paramsRef,    \* the object fetch_all's `params` names: "caller", "local"
    pc,           \* fetch_all: "start", "first", "pool", "returned", "raised"
    params,       \* the dict fetch_all created (a copy or a fresh {})
    first_page,   \* fetch_all's local `first_page`
    results,      \* fetch_all's local `results`
    range,        \* <<start, end>> as passed to range(start, end)
    retval,       \* the list fetch_all returned
    error,        \* the error fetch_all raised
    pool,         \* the ThreadPool's workers: 0 before it is created
    chunksize,    \* MapResult._chunksize
    chunks,       \* the task batches of pool.map, in the order queued
    mapValue,     \* MapResult._value
    mapSuccess,   \* MapResult._success
    mapLeft,      \* MapResult._number_left
    mapErr,       \* MapResult._value when it holds an exception
    mapReady,     \* MapResult is ready: pool.map's get() may return
    mapCached,    \* the job is still in the pool's result cache
    ncalls,       \* log: the number of invocations of get_func so far
    calls,        \* log: the invocations of get_func: arguments and task
    raised,       \* log: the tasks that raised, <<task, error>>
    delivered,    \* log: the page lists handed to the MapResult, <<task, list>>
    outOfOrder,   \* log: a batch completed before an earlier batch
    stable,       \* log: every response so far is the stable snapshot's
    method,       \* the MixpanelQueryClient method that was called
    start_date,   \* its `start_date` argument
    end_date,     \* its `end_date` argument
    response_format, \* its `response_format` argument
    exc,          \* the exception the method raised
    sent,         \* the requests handed to connection.request, in order
    client,       \* the MixpanelQueryClient object: its attributes
    signed,       \* the argument dicts hash_args signed, in order
    opened        \* the calls of urlopen: query parameters and timeout

vars == <<build, concurrency, callerParams, paramsRef, pc, params, first_page, results,
          range, retval, error, pool, chunksize, chunks, mapValue, mapSuccess,
          mapLeft, mapErr, mapReady, mapCached, ncalls, calls, raised, delivered,
          outOfOrder, stable, method, start_date, end_date, response_format,
          exc, sent, client, signed, opened>>

localVars == <<first_page, results, range, retval, error>>
dictVars == <<callerParams, paramsRef, params>>
mapVars == <<mapValue, mapSuccess, mapLeft, mapErr, mapReady, mapCached>>
poolVars == <<pool, chunksize, chunks>>
logVars == <<ncalls, calls, raised, delivered, outOfOrder, stable>>
ctorVars == <<build, concurrency>>
callVars == <<method, start_date, end_date, response_format, exc, sent>>
connVars == <<client, signed, opened>>
clientVars == <<callVars, connVars>>
paginatorVars == <<ctorVars, dictVars, pc, localVars, poolVars, mapVars,
                   logVars>>

\* ------------------------------------------------------------ fetch_all
\* Variant: `params = params or {}`, which keeps the caller's own dict.
ParamsObjectNoCopy(arg) ==
    IF arg.none \/ arg.dict.keys = {} THEN "local" ELSE "caller"

\* `params and params.copy() or {}`: the object the local name is bound to.
\* Both params.copy() and {} are new objects, never the caller's.
ParamsObject(arg) == "local"

\* `params and params.copy() or {}`: the contents of that object.
ParamsCopy(arg) ==
    IF arg.none \/ arg.dict.keys = {} THEN EmptyDict ELSE arg.dict

\* The dict the local name `params` refers to.
CurParams == IF paramsRef = "caller" THEN callerParams.dict ELSE params

\* ceil(a / float(b)) for integers a and b, b # 0.
CeilDiv(a, b) ==
    IF b > 0 THEN -((-a) \div b) ELSE -(a \div (-b))

\* a / b of Python 2 integers (floor division), b # 0.
FloorDiv(a, b) ==
    IF b > 0 THEN a \div b ELSE (-a) \div (-b)

\* Variant: the division without float(), which truncates the last page.
remaining_page_range_floor(response) ==
    <<response.page + 1, FloorDiv(response.total, response.page_size)>>

\* Variant: the range starts at the page of the first response.
remaining_page_range_from_page(response) ==
    <<response.page, CeilDiv(response.total, response.page_size)>>

\* Variant: the range starts at page 1 whatever page the response reports.
remaining_page_range_from_one(response) ==
    <<1, CeilDiv(response.total, response.page_size)>>

\* Variant: the page count is taken as the last page number.
remaining_page_range_inclusive(response) ==
    <<response.page + 1, CeilDiv(response.total, response.page_size) + 1>>

\* _remaining_page_range: (response['page'] + 1, int(num_pages)).
remaining_page_range(response) ==
    <<response.page + 1, CeilDiv(response.total, response.page_size)>>

\* len(range(start, end)).
RangeLen(r) == Max(0, r[2] - r[1])

\* Pool.map_async: the chunk size for an iterable of n items.
ChunkSize(n, processes) ==
    IF n = 0 THEN 0
    ELSE (n \div (processes * 4)) + (IF n % (processes * 4) # 0 THEN 1 ELSE 0)

\* MapResult.__init__: _number_left, the number of task batches.
NumChunks(n, cs) ==
    IF cs <= 0 THEN 0 ELSE (n \div cs) + (IF n % cs # 0 THEN 1 ELSE 0)

\* itertools.chain(*lists) as a list.
RECURSIVE Chain(_)
Chain(lists) ==
    IF lists = <<>> THEN <<>> ELSE Head(lists) \o Chain(Tail(lists))

Init ==
    /\ build \in Builds
    /\ concurrency \in 1..MaxConc
    /\ callerParams \in CallerArgs
    /\ paramsRef = "local"
    /\ pc = "start"
    /\ params = EmptyDict
    /\ first_page = NoResponse
    /\ results = <<>>
    /\ range = <<0, 0>>
    /\ retval = <<>>
    /\ error = NoError
    /\ pool = 0
    /\ chunksize = 0
    /\ chunks = <<>>
    /\ mapValue = <<>>
    /\ mapSuccess = TRUE
    /\ mapLeft = 0
    /\ mapErr = NoError
    /\ mapReady = FALSE
    /\ mapCached = FALSE
    /\ ncalls = 0
    /\ calls = {}
    /\ raised = {}
    /\ delivered = {}
    /\ outOfOrder = FALSE
    /\ stable = TRUE
    /\ method = NoMethod
    /\ start_date = NoDate
    /\ end_date = NoDate
    /\ response_format = "json"
    /\ exc = NoError
    /\ sent = <<>>
    /\ client = NoClient
    /\ signed = <<>>
    /\ opened = <<>>

\* Variant: page 1 is handed to a pool while the first fetch is in flight.
fetch_all_prefetch ==
    /\ pc = "start"
    /\ pc' = "first"
    /\ paramsRef' = "local"
    /\ params' = ParamsCopy(callerParams)
    /\ ncalls' = ncalls + 1
    /\ calls' = calls \cup {[args |-> ParamsCopy(callerParams), task |-> FirstTask]}
    /\ range' = <<1, 2>>
    /\ pool' = concurrency
    /\ chunksize' = 1
    /\ chunks' = <<[st |-> "queued", pos |-> 1, acc |-> <<>>]>>
    /\ mapValue' = <<NoneVal>>
    /\ mapLeft' = 1
    /\ mapCached' = TRUE
    /\ UNCHANGED <<callerParams, ctorVars, clientVars, first_page, results, retval, error,
                   mapSuccess, mapErr, mapReady, raised, delivered, outOfOrder,
                   stable>>

\* fetch_all, lines 33-35: copy the params, start the first fetch.
fetch_all ==
    /\ pc = "start"
    /\ pc' = "first"
    /\ paramsRef' = ParamsObject(callerParams)
    /\ params' = IF ParamsObject(callerParams) = "local"
                 THEN ParamsCopy(callerParams) ELSE params
    /\ ncalls' = ncalls + 1
    /\ calls' = calls \cup {[args |-> ParamsCopy(callerParams), task |-> FirstTask]}
    /\ UNCHANGED <<callerParams, ctorVars, clientVars, localVars, poolVars, mapVars,
                   raised, delivered, outOfOrder, stable>>

\* Variant: the error of the first fetch is replaced by one of the paginator.
first_fetch_raise_wrapped(e) ==
    /\ pc = "first"
    /\ pc' = "raised"
    /\ error' = "PaginatorError"
    /\ raised' = raised \cup {<<FirstTask, e>>}
    /\ UNCHANGED <<ctorVars, clientVars, dictVars, first_page, results, range, retval,
                   poolVars, mapVars, ncalls, calls, delivered, outOfOrder,
                   stable>>

\* The first fetch raises: fetch_all propagates the error (line 35).
first_fetch_raise(e) ==
    /\ pc = "first"
    /\ pc' = "raised"
    /\ error' = e
    /\ raised' = raised \cup {<<FirstTask, e>>}
    /\ UNCHANGED <<ctorVars, clientVars, dictVars, first_page, results, range, retval,
                   poolVars, mapVars, ncalls, calls, delivered, outOfOrder,
                   stable>>

\* Variant: a missing page_size, total or session_id is read with a default.
FirstPageErrorLenient(r) ==
    IF "results" \notin r.keys THEN "KeyError"
    ELSE IF "page_size" \in r.keys /\ r.page_size = 0 THEN "ZeroDivisionError"
    ELSE IF "page" \notin r.keys THEN "KeyError"
    ELSE NoError

\* The error fetch_all raises while reading the first response, in the order
\* lines 36-39 and 54-55 read it; NoError when every read succeeds.
FirstPageError(r) ==
    IF "results" \notin r.keys THEN "KeyError"
    ELSE IF "session_id" \notin r.keys THEN "KeyError"
    ELSE IF "total" \notin r.keys THEN "KeyError"
    ELSE IF "page_size" \notin r.keys THEN "KeyError"
    ELSE IF r.page_size = 0 THEN "ZeroDivisionError"
    ELSE IF "page" \notin r.keys THEN "KeyError"
    ELSE NoError

\* The response is the stable snapshot's page: every key, a positive page
\* size, and the slice of the page it reports.
IsSnapshotPage(r) ==
    /\ r.keys = RespKeys
    /\ r.page_size > 0
    /\ r.results = Slice(r.page, r.total, r.page_size)

\* The page a request asks for: its `page` parameter, page 0 without one.
RequestedPage(args) == IF "page" \in args.keys THEN args.val["page"] ELSE 0

\* Variant: the session id of the first response is not stored.
WithSessionDropped(p, r) == p

\* Variant: params.setdefault('session_id', ...), the caller's value wins.
WithSessionKeepCaller(p, r) ==
    IF "session_id" \in p.keys THEN p ELSE DictSet(p, "session_id", r.session_id)

\* Line 37: params['session_id'] = first_page['session_id'].
WithSession(p, r) == DictSet(p, "session_id", r.session_id)

\* The first fetch returns r: fetch_all reads it (lines 36-39), builds the
\* fetcher and the pool and calls pool.map (lines 40-41, 49-51).  With no
\* remaining page pool.map returns [] at once and fetch_all returns.
first_fetch_return(r) ==
    /\ pc = "first"
    /\ first_page' = r
    /\ stable' = (IsSnapshotPage(r) /\ r.page = RequestedPage(CurParams))
    /\ results' = IF "results" \in r.keys THEN r.results ELSE results
    \* line 37: params['session_id'] = first_page['session_id']
    /\ IF {"results", "session_id"} \subseteq r.keys
       THEN /\ params' = IF paramsRef = "local"
                         THEN WithSession(params, r) ELSE params
            /\ callerParams' =
                 IF paramsRef = "caller"
                 THEN [callerParams EXCEPT !.dict = WithSession(@, r)]
                 ELSE callerParams
       ELSE UNCHANGED <<params, callerParams>>
    /\ IF FirstPageError(r) # NoError
       THEN /\ pc' = "raised"
            /\ error' = FirstPageError(r)
            /\ UNCHANGED <<range, retval, poolVars, mapVars>>
       ELSE LET rng == remaining_page_range(r)
                n == RangeLen(rng)
                cs == ChunkSize(n, concurrency)
            IN  /\ range' = rng
                /\ pool' = concurrency
                /\ chunksize' = cs
                /\ chunks' = [c \in 1..NumChunks(n, cs) |->
                                [st |-> "queued", pos |-> 1, acc |-> <<>>]]
                /\ mapValue' = [i \in 1..n |-> NoneVal]
                /\ mapLeft' = NumChunks(n, cs)
                /\ mapReady' = (cs <= 0)
                /\ mapCached' = (cs > 0)
                /\ UNCHANGED <<mapSuccess, mapErr, error>>
                /\ IF cs <= 0
                   THEN /\ pc' = "returned"
                        /\ retval' = r.results \o Chain([i \in 1..n |-> NoneVal])
                   ELSE /\ pc' = "pool"
                        /\ UNCHANGED retval
    /\ UNCHANGED <<ctorVars, clientVars, paramsRef, ncalls, calls, raised, delivered,
                   outOfOrder>>

\* ------------------------------------------------- the pooled page fetches
\* The number of task batches a worker is running.
Active == Cardinality({c \in DOMAIN chunks : chunks[c].st \in {"ready", "infetch"}})

\* Variant: a thread per task batch.
WorkerAvailableAlways(active, processes) == TRUE

\* ThreadPool(processes=self.concurrency): a batch starts only on one of the
\* pool's worker threads, each of which runs one batch at a time.
WorkerAvailable(active, processes) == active < processes

\* The number of pages of batch c (1-based) and the page at position pos.
ChunkLen(c) == Min(chunksize, RangeLen(range) - (c - 1) * chunksize)

\* Variant: every batch starts again at the first page of the range.
PageAtInChunk(c, pos) == range[1] + (pos - 1)

PageAt(c, pos) == range[1] + (c - 1) * chunksize + (pos - 1)

\* Variant: one-based page numbers in the request.
req_params_one_based(base, page) == DictSet(base, "page", page + 1)

\* _fetcher_func, line 45: dict(params.items() + [('page', page)]), a new
\* dict for each task.
req_params(base, page) == DictSet(base, "page", page)

\* Variant: params['page'] = page on the dict the tasks share.
SharedAfterRequestInPlace(base, page) == DictSet(base, "page", page)

\* _fetcher_func, line 45: the dict the tasks share after a task has built
\* its request.  dict(...) is a new object, so the shared one is as before.
SharedAfterRequest(base, page) == base

\* The request of the page batch c is at.
ReqOf(c) == req_params(CurParams, PageAt(c, chunks[c].pos))

\* What get_func may return for a pooled page: the snapshot's page, an
\* empty page of a changed result set, or a response without 'results'.
PageResponses(page) ==
    {Response(RespKeys, page, first_page.page_size, first_page.total,
              Slice(page, first_page.total, first_page.page_size)),
     Response(RespKeys, page, 1, 0, <<>>),
     Response(RespKeys \ {"results"}, page, first_page.page_size,
              first_page.total, <<>>)}

\* Variant: the page lists are stored in the order the batches complete.
SliceAssignCompletionOrder(value, i, cs, result) ==
    LET k == Cardinality({j \in 1..Len(value) : value[j] # NoneVal})
    IN  [j \in 1..Len(value) |->
            IF j > k /\ j <= k + Len(result) THEN result[j - k] ELSE value[j]]

\* MapResult._set: self._value[i*chunksize:(i+1)*chunksize] = result, for
\* the batch with 0-based index i.
SliceAssign(value, i, cs, result) ==
    [j \in 1..Len(value) |->
        IF j > i * cs /\ j <= i * cs + Len(result)
        THEN result[j - i * cs] ELSE value[j]]

\* Variant: every interpreter reports the first failed batch at once.
ReadyOnFailureAtOnce(bld, left) == TRUE

\* MapResult._set on a failed batch: Python 2 makes the result ready at
\* once, Python 3 only when every batch has reported.
ReadyOnFailure(bld, left) == IF bld = "py2" THEN TRUE ELSE left = 0

\* The worker reports batch c (success, list of page results) or (failure,
\* error); the result handler calls MapResult._set unless the job has left
\* the cache.
TaskDone(c, ok, result) ==
    /\ chunks' = [chunks EXCEPT ![c] = [st |-> "done", pos |-> 0, acc |-> <<>>]]
    /\ outOfOrder' = (outOfOrder \/ \E d \in 1..(c - 1) : chunks[d].st # "done")
    /\ delivered' =
         IF ok /\ mapCached
         THEN delivered \cup {<<PageAt(c, k), result[k]>> : k \in 1..Len(result)}
         ELSE delivered
    /\ IF ~mapCached
       THEN UNCHANGED mapVars
       ELSE LET left == IF build = "py2" /\ ~ok THEN mapLeft ELSE mapLeft - 1
            IN  /\ mapLeft' = left
                /\ IF ok /\ mapSuccess
                   THEN /\ mapValue' = SliceAssign(mapValue, c - 1, chunksize, result)
                        /\ mapReady' = (left = 0)
                        /\ UNCHANGED <<mapSuccess, mapErr>>
                   ELSE /\ mapSuccess' = FALSE
                        /\ mapErr' = IF ~ok /\ mapSuccess THEN result ELSE mapErr
                        /\ mapValue' = IF ~ok /\ mapSuccess THEN <<>> ELSE mapValue
                        /\ mapReady' = ReadyOnFailure(build, left)
                /\ mapCached' = ~mapReady'

\* A worker thread takes the next task batch from the queue.
worker_take ==
    /\ pool > 0
    /\ WorkerAvailable(Active, pool)
    /\ \E c \in DOMAIN chunks :
        /\ chunks[c].st = "queued"
        /\ \A d \in 1..(c - 1) : chunks[d].st # "queued"
        /\ chunks' = [chunks EXCEPT ![c].st = "ready"]
    /\ UNCHANGED <<ctorVars, clientVars, dictVars, pc, localVars, pool, chunksize,
                   mapVars, logVars>>

\* _fetcher_func(page) starts: it builds req_params and calls get_func.  On
\* Python 3 `params.items() + [...]` raises TypeError and the batch fails
\* before get_func is called.
fetcher_start(c) ==
    /\ c \in DOMAIN chunks
    /\ chunks[c].st = "ready"
    /\ IF build = "py2"
       THEN /\ ncalls' = ncalls + 1
            /\ calls' = calls \cup
                    {[args |-> ReqOf(c), task |-> PageAt(c, chunks[c].pos)]}
            /\ chunks' = [chunks EXCEPT ![c].st = "infetch"]
            /\ params' =
                 IF paramsRef = "local"
                 THEN SharedAfterRequest(params, PageAt(c, chunks[c].pos))
                 ELSE params
            /\ callerParams' =
                 IF paramsRef = "caller"
                 THEN [callerParams EXCEPT !.dict =
                         SharedAfterRequest(@, PageAt(c, chunks[c].pos))]
                 ELSE callerParams
            /\ UNCHANGED <<mapVars, raised, outOfOrder, delivered>>
       ELSE /\ TaskDone(c, FALSE, "TypeError")
            /\ raised' = raised \cup {<<PageAt(c, chunks[c].pos), "TypeError">>}
            /\ UNCHANGED <<ncalls, calls, params, callerParams>>
    /\ UNCHANGED <<ctorVars, clientVars, paramsRef, pc, localVars, pool, chunksize,
                   stable>>

\* get_func returns r to _fetcher_func, which reads r['results'] (line 46):
\* a KeyError fails the batch; the last page of a batch completes it.
fetcher_return(c, r) ==
    /\ c \in DOMAIN chunks
    /\ chunks[c].st = "infetch"
    /\ r \in PageResponses(RequestedPage(ReqOf(c)))
    /\ stable' = (stable /\ IsSnapshotPage(r) /\ r.total = first_page.total
                         /\ r.page_size = first_page.page_size)
    /\ IF "results" \notin r.keys
       THEN /\ TaskDone(c, FALSE, "KeyError")
            /\ raised' = raised \cup {<<PageAt(c, chunks[c].pos), "KeyError">>}
       ELSE /\ UNCHANGED raised
            /\ IF chunks[c].pos = ChunkLen(c)
               THEN TaskDone(c, TRUE, Append(chunks[c].acc, r.results))
               ELSE /\ chunks' = [chunks EXCEPT ![c] =
                            [st |-> "ready", pos |-> @.pos + 1,
                             acc |-> Append(@.acc, r.results)]]
                    /\ UNCHANGED <<mapVars, outOfOrder, delivered>>
    /\ UNCHANGED <<ctorVars, clientVars, dictVars, pc, localVars, pool, chunksize,
                   ncalls, calls>>

\* get_func raises e in a pooled task: the batch fails with e and its
\* remaining pages are not fetched.
fetcher_raise(c, e) ==
    /\ c \in DOMAIN chunks
    /\ chunks[c].st = "infetch"
    /\ raised' = raised \cup {<<PageAt(c, chunks[c].pos), e>>}
    /\ TaskDone(c, FALSE, e)
    /\ UNCHANGED <<ctorVars, clientVars, dictVars, pc, localVars, pool, chunksize,
                   ncalls, calls, stable>>

\* get_func raises, in a pooled task, an error that is not an Exception
\* (SystemExit, KeyboardInterrupt, GeneratorExit).  The pool's worker catches
\* Exception only: the thread ends without reporting its batch, the pool
\* replaces the thread, and the MapResult is never told about the batch.
fetcher_exit(c) ==
    /\ c \in DOMAIN chunks
    /\ chunks[c].st = "infetch"
    /\ raised' = raised \cup {<<PageAt(c, chunks[c].pos), ExitError>>}
    /\ chunks' = [chunks EXCEPT ![c] = [st |-> "lost", pos |-> 0, acc |-> <<>>]]
    /\ UNCHANGED <<ctorVars, clientVars, dictVars, pc, localVars, pool, chunksize,
                   mapVars, ncalls, calls, delivered, outOfOrder, stable>>

\* Variant: a failed page is skipped and the lists that arrived are returned.
pool_map_return_partial ==
    /\ pc = "pool"
    /\ mapReady
    /\ pc' = "returned"
    /\ retval' = results \o Chain(SelectSeq(mapValue, LAMBDA l : l # NoneVal))
    /\ UNCHANGED <<ctorVars, clientVars, dictVars, first_page, results, range, error,
                   poolVars, mapVars, logVars>>

\* Variant: the error of a page fetch is replaced by one of the paginator.
pool_map_return_wrapped ==
    /\ pc = "pool"
    /\ mapReady
    /\ IF mapSuccess
       THEN /\ pc' = "returned"
            /\ retval' = results \o Chain(mapValue)
            /\ UNCHANGED error
       ELSE /\ pc' = "raised"
            /\ error' = "PaginatorError"
            /\ UNCHANGED retval
    /\ UNCHANGED <<ctorVars, clientVars, dictVars, first_page, results, range, poolVars,
                   mapVars, logVars>>

\* pool.map returns or raises in fetch_all's thread once the MapResult is
\* ready (line 51), and fetch_all returns results + the chained page lists
\* (line 41) or propagates the error.
pool_map_return ==
    /\ pc = "pool"
    /\ mapReady
    /\ IF mapSuccess
       THEN /\ pc' = "returned"
            /\ retval' = results \o Chain(mapValue)
            /\ UNCHANGED error
       ELSE /\ pc' = "raised"
            /\ error' = mapErr
            /\ UNCHANGED retval
    /\ UNCHANGED <<ctorVars, clientVars, dictVars, first_page, results, range, poolVars,
                   mapVars, logVars>>

\* _concurrent_flatmap, lines 50-51: the pool is a local that is never
\* closed, terminated or joined.  Once fetch_all is over, a Python 3 runtime
\* may finalize the unreferenced pool and stop its workers; nothing in the
\* code makes that happen, and before Python 3.8 the pool's handler thread
\* keeps it alive for the life of the process.
pool_finalized ==
    /\ build = "py3"
    /\ pc \in {"returned", "raised"}
    /\ pool > 0
    /\ pool' = 0
    /\ UNCHANGED <<ctorVars, clientVars, dictVars, pc, localVars, chunksize, chunks,
                   mapVars, logVars>>

Next ==
    \/ fetch_all
    \/ \E e \in FetchErrors : first_fetch_raise(e)
    \/ \E r \in FirstResponses : first_fetch_return(r)
    \/ worker_take
    \/ \E c \in DOMAIN chunks : fetcher_start(c)
    \/ \E c \in DOMAIN chunks : \E r \in PageResponses(RequestedPage(ReqOf(c))) :
            fetcher_return(c, r)
    \/ \E c \in DOMAIN chunks : \E e \in FetchErrors : fetcher_raise(c, e)
    \/ \E c \in DOMAIN chunks : fetcher_exit(c)
    \/ pool_map_return
    \/ pool_finalized

Spec == Init /\ [][Next]_vars

\* The steps the threads take once get_func has answered or been called:
\* the interpreter schedules every thread that can run.
ThreadStep ==
    \/ fetch_all
    \/ worker_take
    \/ \E c \in DOMAIN chunks : fetcher_start(c)
    \/ pool_map_return

\* An invocation of get_func ends: it returns or it raises.
FetchEnds ==
    \/ \E e \in FetchErrors : first_fetch_raise(e)
    \/ \E r \in FirstResponses : first_fetch_return(r)
    \/ \E c \in DOMAIN chunks : \E r \in PageResponses(RequestedPage(ReqOf(c))) :
            fetcher_return(c, r)
    \/ \E c \in DOMAIN chunks : \E e \in FetchErrors : fetcher_raise(c, e)
    \/ \E c \in DOMAIN chunks : fetcher_exit(c)

\* The paginator with every runnable thread scheduled and every invocation
\* of get_func ending.
LiveSpec == Spec /\ WF_vars(ThreadStep) /\ WF_vars(FetchEnds)

\* ------------------------------------------------- MixpanelQueryClient
\* The instants of one day.
DayLen == MaxSec + 1

\* Variant: only the date part of a date-and-time string is kept.
validate_date_dayonly(date) ==
    IF date.fmt \in {"date", "datetime"}
    THEN [ok |-> TRUE, t |-> date.day * DayLen]
    ELSE [ok |-> FALSE, t |-> 0]

\* _validate_date: strptime with '%Y-%m-%d' (midnight of the day), else
\* with '%Y-%m-%d %H:%M:%S', else InvalidDateException.  The datetime is
\* the count of instants since day 0.
validate_date(date) ==
    IF date.fmt = "date"
    THEN [ok |-> TRUE, t |-> date.day * DayLen]
    ELSE IF date.fmt = "datetime"
    THEN [ok |-> TRUE, t |-> date.day * DayLen + date.sec]
    ELSE [ok |-> FALSE, t |-> 0]

\* _validate_response_format: TRUE when it does not raise.
validate_response_format(f) == f \in VALID_RESPONSE_FORMATS

\* MixpanelQueryClient.__init__: api_key, api_secret and connection are
\* set; no attribute `timeout` is.
client_init(k, secret) ==
    /\ ~client.made
    /\ client' = [made |-> TRUE, api_key |-> k, api_secret |-> secret,
                  has_timeout |-> FALSE, timeout |-> PyNone]
    /\ UNCHANGED <<paginatorVars, callVars, signed, opened>>

\* A caller assigns client.timeout, the attribute raw_request reads
\* (connection.py line 60).
set_timeout(t) ==
    /\ client.made
    /\ ~client.has_timeout
    /\ method = NoMethod
    /\ client' = [client EXCEPT !.has_timeout = TRUE, !.timeout = t]
    /\ UNCHANGED <<paginatorVars, callVars, signed, opened>>

\* Connection.check_params: every key whose value is false is deleted.
check_params(ps) == [k \in {j \in DOMAIN ps : Truthy(ps[j])} |-> ps[k]]

\* json.dumps of a list of n one-digit numbers: '[1, 2]' has 3n characters.
JsonDumps(x) == PyStr(3 * x.v)

\* hash_args, lines 82-84: list values are replaced by their JSON text, in
\* the dict itself.
ArgsJson(args) ==
    [k \in DOMAIN args |-> IF args[k].t = "list" THEN JsonDumps(args[k])
                                                ELSE args[k]]

\* hash_args, lines 86-98: the digest of the sorted key=value pairs and the
\* secret, given here as what it is the digest of.
hash_args(args, secret) ==
    [args |-> ArgsJson(args),
     secret |-> IF Truthy(secret) THEN secret
                ELSE IF Truthy(client.api_secret) THEN client.api_secret
                ELSE PyNone]

\* Connection.DEFAULT_TIMEOUT
DEFAULT_TIMEOUT == 120

\* The response_format as a parameter value.
FormatVal(f) == PyStr(IF f = "json" THEN 4 ELSE 3)

\* Connection.raw_request: api_key, expire and format are added, the false
\* values deleted, the rest signed, and the URL opened with the timeout
\* looked up on the client; the lookup raises AttributeError when the
\* client has no attribute `timeout`.
raw_request(method_name, ps, f) ==
    \E now \in Clock :
        LET added == [k \in DOMAIN ps \cup {"api_key", "expire", "format"} |->
                        CASE k = "api_key" -> client.api_key
                          [] k = "expire" -> PyInt(now + 600)
                          [] k = "format" -> FormatVal(f)
                          [] OTHER -> ps[k]]
            checked == check_params(added)
            unsigned == [k \in DOMAIN checked \ {"sig"} |-> checked[k]]
            digest == hash_args(unsigned, client.api_secret)
            final == [k \in DOMAIN unsigned \cup {"sig"} |->
                        IF k = "sig" THEN PyStr(32) ELSE digest.args[k]]
        IN  /\ signed' = Append(signed, digest)
            /\ IF client.has_timeout
               THEN /\ exc' = NoError
                    /\ opened' = Append(opened,
                          [method_name |-> method_name, query |-> final,
                           timeout |-> IF client.timeout = PyNone
                                       THEN PyInt(DEFAULT_TIMEOUT)
                                       ELSE client.timeout])
               ELSE /\ exc' = "AttributeError"
                    /\ opened' = opened

\* The arguments of connection.request.
Request(endpoint, ps, f) ==
    [endpoint |-> endpoint, params |-> ps, response_format |-> f]

\* A date string as a parameter value: 10 or 19 characters.
DateVal(d) == PyStr(IF d.fmt = "date" THEN 10 ELSE 19)

\* The date parameters are the strings the caller gave, not the parsed
\* datetimes; the method's other parameters are not varied here.
DateParams(s, e) ==
    [k \in {"from_date", "to_date"} |->
        IF k = "from_date" THEN DateVal(s) ELSE DateVal(e)]

\* The method is entered with its arguments.
Called(m, s, e, f) ==
    /\ client.made
    /\ client' = client
    /\ method = NoMethod
    /\ method' = m
    /\ start_date' = s
    /\ end_date' = e
    /\ response_format' = f
    /\ UNCHANGED paginatorVars

\* Both dates are validated, start first, then compared, and the request is
\* made when start_date is not after end_date (client.py lines 64-78, and
\* the same statements in the other date-range methods).
CheckDatesAndRequest(endpoint, s, e, f) ==
    IF ~validate_date(s).ok \/ ~validate_date(e).ok
    THEN exc' = "InvalidDateException" /\ UNCHANGED <<sent, signed, opened>>
    ELSE IF validate_date(s).t > validate_date(e).t
    THEN exc' = "InvalidDateException" /\ UNCHANGED <<sent, signed, opened>>
    ELSE /\ sent' = Append(sent, Request(endpoint, DateParams(s, e), f))
         /\ raw_request(endpoint, DateParams(s, e), f)

\* The methods that validate response_format before the dates.
CheckFormatDatesAndRequest(endpoint, s, e, f) ==
    IF ~validate_response_format(f)
    THEN exc' = "InvalidFormatException" /\ UNCHANGED <<sent, signed, opened>>
    ELSE CheckDatesAndRequest(endpoint, s, e, f)

annotations_list(s, e, f) ==
    /\ Called("annotations_list", s, e, f)
    /\ CheckDatesAndRequest("annotations", s, e, f)

get_funnel_detail(s, e, f) ==
    /\ Called("get_funnel_detail", s, e, f)
    /\ CheckFormatDatesAndRequest("funnels", s, e, f)

get_segmentation(s, e, f) ==
    /\ Called("get_segmentation", s, e, f)
    /\ CheckFormatDatesAndRequest("segmentation", s, e, f)

get_segmentation_numeric(s, e, f) ==
    /\ Called("get_segmentation_numeric", s, e, f)
    /\ CheckFormatDatesAndRequest("segmentation/numeric", s, e, f)

get_segmentation_sum(s, e, f) ==
    /\ Called("get_segmentation_sum", s, e, f)
    /\ CheckFormatDatesAndRequest("segmentation/sum", s, e, f)

get_segmentation_average(s, e, f) ==
    /\ Called("get_segmentation_average", s, e, f)
    /\ CheckFormatDatesAndRequest("segmentation/average", s, e, f)

get_segmentation_multiseg(s, e, f) ==
    /\ Called("get_segmentation_multiseg", s, e, f)
    /\ CheckFormatDatesAndRequest("segmentation/multiseg", s, e, f)

\* The dict get_engage builds from its arguments.
EngageParams(where, session_id, page) ==
    [k \in {"where", "session_id", "page"} |->
        CASE k = "where" -> where
          [] k = "session_id" -> session_id
          [] OTHER -> page]

\* get_engage hands its three arguments to connection.request as they are.
get_engage(where, session_id, page, f) ==
    /\ Called("get_engage", NoDate, NoDate, f)
    /\ sent' = Append(sent, Request("engage",
                                    EngageParams(where, session_id, page), f))
    /\ raw_request("engage", EngageParams(where, session_id, page), f)

ClientNext ==
    \/ \E k \in ApiKeys : \E secret \in ApiSecrets : client_init(k, secret)
    \/ \E t \in TimeoutValues : set_timeout(t)
    \/ \E w \in WhereValues : \E sid \in SessionValues : \E pg \in PageValues :
            \E f \in Formats : get_engage(w, sid, pg, f)
    \/ \E s, e \in DateStrings : \E f \in Formats : annotations_list(s, e, f)
    \/ \E s, e \in DateStrings : \E f \in Formats : get_funnel_detail(s, e, f)
    \/ \E s, e \in DateStrings : \E f \in Formats : get_segmentation(s, e, f)
    \/ \E s, e \in DateStrings : \E f \in Formats :
            get_segmentation_numeric(s, e, f)
    \/ \E s, e \in DateStrings : \E f \in Formats :
            get_segmentation_sum(s, e, f)
    \/ \E s, e \in DateStrings : \E f \in Formats :
            get_segmentation_average(s, e, f)
    \/ \E s, e \in DateStrings : \E f \in Formats :
            get_segmentation_multiseg(s, e, f)

\* No paginator is in use: one paginator, never called, stands by.
ClientInit ==
    /\ Init
    /\ concurrency = 1
    /\ callerParams.none

\* One call of one client method on a client that is not paginating.
ClientSpec == ClientInit /\ [][ClientNext]_vars

\* ------------------------------------------------------------- properties
\* The page numbers of range(start, end), in order.
PooledPages == [i \in 1..RangeLen(range) |-> range[1] + i - 1]

\* The pooled invocations of get_func in the log.
PooledCalls == {c \in calls : c.task # FirstTask}

\* The lists delivered for page p.
ListsOf(p) == {x[2] : x \in {y \in delivered : y[1] = p}}

\* The errors get_func raised in this call.
RaisedByFetch == {x \in raised : x[2] \in FetchErrors}

\* The errors the paginator raises itself: a missing key of a response, a
\* zero page_size, the list concatenation of line 45 on Python 3.
OwnErrors == {"KeyError", "ZeroDivisionError", "TypeError"}

\* fetch_all has read a first response.
FirstRead == pc \in {"pool", "returned", "raised"} /\ first_page # NoResponse

\* The number of get_func invocations executing.
Running ==
    (IF pc = "first" THEN 1 ELSE 0) +
    Cardinality({c \in DOMAIN chunks : chunks[c].st = "infetch"})

\* C1: a successful fetch_all returns the first page's results followed by
\* the lists of the pooled pages in increasing page-number order, whatever
\* the order in which the page fetches completed.
C1_PageOrder ==
    pc = "returned" =>
        /\ \A i \in 1..RangeLen(range) : Cardinality(ListsOf(PooledPages[i])) = 1
        /\ retval = first_page.results \o
             Chain([i \in 1..RangeLen(range) |->
                        CHOOSE l \in ListsOf(PooledPages[i]) : TRUE])

\* C1 witness: a successful call whose pages completed out of page order
\* and returned different, non-empty lists.
C1_Witness ==
    /\ pc = "returned"
    /\ outOfOrder
    /\ stable
    /\ first_page.total = 3
    /\ first_page.page_size = 1
    /\ retval = <<1, 2, 3>>

\* C2: with a first response of page 0, page_size S > 0 and total T > 0, a
\* successful fetch_all has invoked get_func ceil(T/S) times: once
\* synchronously and ceil(T/S) - 1 times in the pool.
C2_FetchCount ==
    (/\ pc = "returned"
     /\ first_page.page = 0
     /\ first_page.page_size > 0
     /\ first_page.total > 0)
    => LET pages == (first_page.total + first_page.page_size - 1)
                        \div first_page.page_size
       IN  /\ ncalls = pages
           /\ Cardinality(calls \ PooledCalls) = 1
           /\ Cardinality(PooledCalls) = pages - 1

\* C2 witness: total = 5, page_size = 2: three invocations.
C2_Witness ==
    /\ pc = "returned"
    /\ first_page.page = 0
    /\ first_page.page_size = 2
    /\ first_page.total = 5
    /\ ncalls = 3

\* C3 as stated: when every response is the stable snapshot's page, the
\* list fetch_all returns is the T items, each once.
C3_AllItemsOnce ==
    (pc = "returned" /\ stable) =>
        retval = [i \in 1..first_page.total |-> i]

\* C3 amended: when every response is the stable snapshot's page and the
\* first response is page 0, the list fetch_all returns is the T items,
\* each once.
C3_AllItemsOnceFromPageZero ==
    (pc = "returned" /\ stable /\ first_page.page = 0) =>
        retval = [i \in 1..first_page.total |-> i]

\* C3 witness: 5 items in pages of 2, the last page short.
C3_Witness ==
    /\ pc = "returned"
    /\ stable
    /\ first_page.page = 0
    /\ first_page.total = 5
    /\ first_page.page_size = 2
    /\ retval = <<1, 2, 3, 4, 5>>

\* C4 as stated: when the first response has total <= page_size, fetch_all
\* invokes get_func once, dispatches no pooled fetch and returns the first
\* response's results.
C4_SinglePage ==
    (/\ FirstRead
     /\ {"total", "page_size"} \subseteq first_page.keys
     /\ first_page.total <= first_page.page_size)
    => /\ pc = "returned"
       /\ ncalls = 1
       /\ chunks = <<>>
       /\ retval = first_page.results

\* C4 amended: when the first response carries every key, page >= 0,
\* page_size > 0 and total <= page_size, fetch_all invokes get_func once,
\* dispatches no pooled fetch and returns the first response's results.
C4_SinglePageWellFormed ==
    (/\ FirstRead
     /\ first_page.keys = RespKeys
     /\ first_page.page >= 0
     /\ first_page.page_size > 0
     /\ first_page.total <= first_page.page_size)
    => /\ pc = "returned"
       /\ ncalls = 1
       /\ chunks = <<>>
       /\ retval = first_page.results

\* C4 witness: a results list longer than total and page_size, as in
\* tests/test_paginator.py, returned as it is.
C4_Witness ==
    /\ pc = "returned"
    /\ first_page.total = 1
    /\ first_page.page_size = 2
    /\ first_page.results = Stray
    /\ retval = Stray
    /\ ncalls = 1

\* C5: every invocation of get_func other than the first carries the
\* session_id of the first response.
C5_SessionPinned ==
    \A c \in PooledCalls :
        /\ "session_id" \in c.args.keys
        /\ c.args.val["session_id"] = first_page.session_id

\* C5 witness: two pooled invocations of a call whose caller passed a
\* session_id of its own.
C5_Witness ==
    /\ Cardinality(PooledCalls) >= 2
    /\ "session_id" \in callerParams.dict.keys
    /\ callerParams.dict.val["session_id"] # first_page.session_id

\* C6: no step of fetch_all changes the dict the caller passed.
C6_CallerParamsUnchanged == [][callerParams' = callerParams]_vars

\* C6 witness: a failed call whose own dict has the session_id while the
\* caller's dict, not empty, has none.
C6_Witness ==
    /\ pc = "raised"
    /\ error \in FetchErrors
    /\ ~callerParams.none
    /\ callerParams.dict.keys = {"where"}
    /\ params.keys = {"where", "session_id"}

\* C7: never more than `concurrency` invocations of get_func execute.
C7_ConcurrencyBound == Running <= concurrency

\* C7 witness: every worker is inside get_func while pages are waiting.
C7_Witness ==
    /\ Running = concurrency
    /\ RangeLen(range) > concurrency
    /\ \E c \in DOMAIN chunks : chunks[c].st = "queued"

\* C8: fetch_all does not return a list when a pooled page task raised.
C8_NoPartialResult == pc = "returned" => raised = {}

\* C8 witness: a call that failed on one page after another page's list
\* had arrived.
C8_Witness ==
    /\ pc = "raised"
    /\ delivered # {}
    /\ \E x \in RaisedByFetch : x[1] # FirstTask

\* C9: when the first fetch raises, fetch_all fails with that error after
\* one invocation of get_func, and creates no pool.
C9_FirstFetchFails ==
    \A e \in FetchErrors :
        <<FirstTask, e>> \in raised =>
            /\ pc = "raised"
            /\ error = e
            /\ ncalls = 1
            /\ pool = 0
            /\ chunks = <<>>

\* C9 witness: the first fetch raised E2.
C9_Witness == <<FirstTask, "E2">> \in raised /\ pc = "raised"

\* C10 as stated: the error fetch_all fails with is one that an invocation
\* of get_func raised, and a call in which get_func raised does not return.
C10_OnlyFetchErrors ==
    /\ pc = "raised" => \E x \in RaisedByFetch : x[2] = error
    /\ pc = "returned" => RaisedByFetch = {}

\* C10 amended: the error fetch_all fails with is either one that an
\* invocation of get_func raised, unchanged, or one the paginator raises
\* itself (KeyError, ZeroDivisionError, TypeError); a call in which
\* get_func raised does not return, and no task is invoked twice.
C10_FetchOrOwnErrors ==
    /\ pc = "raised" =>
        \/ \E x \in RaisedByFetch : x[2] = error
        \/ error \in OwnErrors /\ (error = "TypeError" => build = "py3")
    /\ pc = "returned" => RaisedByFetch = {}
    /\ ncalls = Cardinality(calls)

\* C10 witness: two pages raised different errors and fetch_all failed with
\* one of them.
C10_Witness ==
    /\ pc = "raised"
    /\ Cardinality({x[2] : x \in RaisedByFetch}) = 2
    /\ error \in FetchErrors

\* C11: when the first response has a page_size of zero or less, fetch_all
\* fails, and get_func has been invoked once.
C11_BadPageSizeFails ==
    (FirstRead /\ first_page.keys = RespKeys /\ first_page.page_size <= 0)
    => (pc = "raised" /\ ncalls = 1)

\* C12: when the first response lacks page_size, total or session_id,
\* fetch_all fails, and get_func has been invoked once.
C12_MissingKeyFails ==
    (FirstRead /\ {"page_size", "total", "session_id"} \ first_page.keys # {})
    => (pc = "raised" /\ error = "KeyError" /\ ncalls = 1 /\ chunks = <<>>)

\* C12 witness: a first response without total has been read.
C12_Witness ==
    /\ FirstRead
    /\ first_page.keys = RespKeys \ {"total"}
    /\ pc = "raised"

\* C13: while fetch_all has not read the first response, no pooled task has
\* started and get_func has not been invoked with a page of the paginator.
C13_FirstBeforePool ==
    pc \in {"start", "first"} =>
        /\ PooledCalls = {}
        /\ \A c \in DOMAIN chunks : chunks[c].st = "queued"

\* C13 witness: a pooled fetch is executing, after the first response.
C13_Witness ==
    /\ pc = "pool"
    /\ FirstRead
    /\ \E c \in DOMAIN chunks : chunks[c].st = "infetch"
    /\ PooledCalls # {}

\* Every task batch handed to the pool has finished.
AllBatchesDone == \A c \in DOMAIN chunks : chunks[c].st = "done"

\* C14 as stated: when fetch_all has given control back, by returning or
\* by raising, no dispatched page fetch is in flight or pending.
C14_ControlAfterAll ==
    pc \in {"returned", "raised"} => (AllBatchesDone /\ Running = 0)

\* C14 amended: when fetch_all has returned a list, no dispatched page
\* fetch is in flight or pending; the same holds when it has raised on
\* Python 3, whose pool.map waits for every batch.
C14_ReturnAfterAll ==
    /\ pc = "returned" => (AllBatchesDone /\ Running = 0)
    /\ (pc = "raised" /\ build = "py3") => (AllBatchesDone /\ Running = 0)

\* C14 witness: a successful call of three pooled pages, completed out of
\* order, all finished at the return.
C14_Witness ==
    /\ pc = "returned"
    /\ Len(chunks) = 3
    /\ outOfOrder
    /\ AllBatchesDone

\* ceil(T / S) as the number of pages of T items, S # 0.
PageCount(T, S) ==
    IF S > 0 THEN (T + S - 1) \div S ELSE -(T \div (-S))

\* The page numbers the pooled invocations of get_func carried.
PooledPageNumbers == {c.args.val["page"] : c \in PooledCalls}

\* No page number was passed to more than one pooled invocation.
EachPageOnce ==
    Cardinality(PooledPageNumbers) = ncalls - (IF pc = "start" THEN 0 ELSE 1)

\* C15 as stated: a successful call has passed exactly the page numbers
\* 1 .. ceil(total/page_size) - 1 to the pooled fetches, and no call passes
\* a page number twice.
C15_PagesFromOne ==
    /\ pc = "returned" =>
        PooledPageNumbers =
            1..(PageCount(first_page.total, first_page.page_size) - 1)
    /\ EachPageOnce

\* C15 amended: a successful call has passed exactly the page numbers
\* page + 1 .. ceil(total/page_size) - 1 to the pooled fetches, page being
\* the page of the first response, and no call passes a page number twice.
C15_PagesAfterFirst ==
    /\ pc = "returned" =>
        PooledPageNumbers =
            (first_page.page + 1)..
                (PageCount(first_page.total, first_page.page_size) - 1)
    /\ EachPageOnce

\* C15 witness: a successful call of 6 items in pages of 1, with the five
\* pooled pages in batches of two.
C15_Witness ==
    /\ pc = "returned"
    /\ first_page.page = 0
    /\ chunksize = 2
    /\ PooledPageNumbers = 1..5
    /\ ncalls = 6

\* C16: when the caller's params contain page or session_id, every pooled
\* invocation carries the page number of its task and the session_id of
\* the first response, and every other key of the caller with its value.
C16_PaginatorValuesWin ==
    ({"page", "session_id"} \cap callerParams.dict.keys # {}) =>
        \A c \in PooledCalls :
            /\ c.args.keys = callerParams.dict.keys \cup {"page", "session_id"}
            /\ c.args.val["page"] = c.task
            /\ c.args.val["session_id"] = first_page.session_id
            /\ \A k \in callerParams.dict.keys \ {"page", "session_id"} :
                    c.args.val[k] = callerParams.dict.val[k]

\* C16 witness: the caller passed page = 1 and session_id = 10, and page 2
\* was requested with the server's session id.
C16_Witness ==
    /\ callerParams.dict.keys = {"where", "page", "session_id"}
    /\ \E c \in PooledCalls :
        /\ c.task = 2
        /\ c.args.val["page"] = 2
        /\ c.args.val["session_id"] = ServerSession
        /\ c.args.val["where"] = callerParams.dict.val["where"]

\* The page numbers the first response alone calls for.
PagesOfFirst ==
    (first_page.page + 1)..
        (PageCount(first_page.total, first_page.page_size) - 1)

\* C17: once the pool exists, no step (in particular no later response,
\* whatever total, page_size and page it carries) changes the range of
\* pages or the task batches, and every page number requested is one the
\* first response calls for; a successful call has requested them all.
C17_PagesFixedByFirst ==
    [][pool > 0 =>
        /\ range' = range
        /\ chunksize' = chunksize
        /\ Len(chunks') = Len(chunks)
        /\ PooledPageNumbers' \subseteq PagesOfFirst
        /\ pc' = "returned" => PooledPageNumbers' = PagesOfFirst]_vars

\* C17 witness: page 1 answered with another total and page size than the
\* first response, and the call went on to request page 2 and returned.
C17_Witness ==
    /\ pc = "returned"
    /\ first_page.page = 0
    /\ first_page.total = 3
    /\ first_page.page_size = 1
    /\ <<1, <<>>>> \in delivered
    /\ PooledPageNumbers = {1, 2}

\* C18: once the pool exists no step changes the dict the tasks share
\* (the caller's params plus session_id, without a page of the paginator),
\* and every pooled invocation carries the page number of its own task.
C18_SharedBaseUntouched ==
    [][pool > 0 =>
        /\ CurParams' = CurParams
        /\ \A c \in PooledCalls' : c.args.val["page"] = c.task]_vars

\* C18 witness: two tasks are inside get_func at once, with their own page
\* numbers, and the shared dict has no page.
C18_Witness ==
    /\ Cardinality({c \in DOMAIN chunks : chunks[c].st = "infetch"}) = 2
    /\ {1, 2} \subseteq PooledPageNumbers
    /\ \A c \in PooledCalls : c.args.val["page"] = c.task
    /\ "page" \notin CurParams.keys

\* C19: when fetch_all has returned or raised, the pool it created has been
\* shut down: no worker of it is left.
C19_PoolShutDown == pc \in {"returned", "raised"} => pool = 0

\* The methods that take a date range and compare its ends.
DateRangeMethods ==
    {"annotations_list", "get_funnel_detail", "get_segmentation",
     "get_segmentation_numeric", "get_segmentation_sum",
     "get_segmentation_average", "get_segmentation_multiseg"}

\* Both date arguments are in one of the two accepted forms.
BothParse == {start_date.fmt, end_date.fmt} \subseteq {"date", "datetime"}

\* The instant start_date names is after the one end_date names.
StartLater ==
    \/ start_date.day > end_date.day
    \/ start_date.day = end_date.day /\ start_date.sec > end_date.sec

\* C20 as stated: a date-range method called with dates that both parse,
\* the start later than the end, raises InvalidDateException and makes no
\* request.
C20_LaterStartRejected ==
    (method \in DateRangeMethods /\ BothParse /\ StartLater) =>
        (exc = "InvalidDateException" /\ sent = <<>>)

\* C20 amended: the same, for annotations_list with any response_format
\* and for the other six methods with a response_format of json or csv;
\* with another response_format those six raise InvalidFormatException
\* before looking at the dates.  In every case no request is made.
C20_LaterStartRejectedValidFormat ==
    (method \in DateRangeMethods /\ BothParse /\ StartLater) =>
        /\ sent = <<>>
        /\ (method = "annotations_list" \/ response_format \in {"json", "csv"})
              => exc = "InvalidDateException"
        /\ (method # "annotations_list" /\ response_format \notin {"json", "csv"})
              => exc = "InvalidFormatException"

\* C20 witness: get_segmentation was called with two date-and-time strings
\* of the same day, the start one second later, and raised.
C20_Witness ==
    /\ method = "get_segmentation"
    /\ response_format = "csv"
    /\ start_date = [fmt |-> "datetime", day |-> 1, sec |-> 1]
    /\ end_date = [fmt |-> "date", day |-> 1, sec |-> 0]
    /\ exc = "InvalidDateException"
    /\ sent = <<>>

\* C21: of the parameters handed to connection.request, exactly those whose
\* value is None are missing from what raw_request signs, and from the
\* query of the request it opens; every other one is signed and sent.
C21_OnlyNoneDropped ==
    \A i \in DOMAIN sent :
        \A k \in DOMAIN sent[i].params :
            /\ i \in DOMAIN signed =>
                (k \in DOMAIN signed[i].args <=> sent[i].params[k] # PyNone)
            /\ i \in DOMAIN opened =>
                (k \in DOMAIN opened[i].query <=> sent[i].params[k] # PyNone)

\* fetch_all has returned a list or raised an error.
Terminated == pc \in {"returned", "raised"}

\* C22: when every invocation of get_func returns or raises and every
\* thread is scheduled, fetch_all terminates: it returns a list or raises.
C22_Terminates == <>Terminated

\* C23: the pooled fetches start at the page after the one the first
\* response reports: no pooled fetch ever requests a page number <= page,
\* and a successful call has requested exactly page + 1 ..
\* ceil(total/page_size) - 1 from the pool, in max(1, ceil(total/page_size)
\* - page) invocations of get_func overall.
C23_StartsAfterFirstPage ==
    /\ \A p \in PooledPageNumbers : p > first_page.page
    /\ pc = "returned" =>
        /\ PooledPageNumbers = PagesOfFirst
        /\ ncalls = Max(1, PageCount(first_page.total, first_page.page_size)
                             - first_page.page)

\* C23 witness: the first response reports page 1 of 6 items in pages of 1;
\* the call returned after fetching pages 2..5 from the pool, 5 invocations.
C23_Witness ==
    /\ pc = "returned"
    /\ first_page.page = 1
    /\ first_page.total = 6
    /\ first_page.page_size = 1
    /\ PooledPageNumbers = 2..5
    /\ ncalls = 5

\* C24: every request raw_request signs is opened, with the client's
\* timeout when one is set and DEFAULT_TIMEOUT otherwise, and the lookup of
\* the timeout never fails the request.
C24_OpenedWithTimeout ==
    /\ exc # "AttributeError"
    /\ Len(opened) = Len(signed)
    /\ \A i \in DOMAIN opened :
        opened[i].timeout =
            IF client.has_timeout /\ client.timeout # PyNone
            THEN client.timeout
            ELSE PyInt(DEFAULT_TIMEOUT)

====
